---- MODULE Spec2Model ----
(***************************************************************************)
(* Model of Report.py (bio-report): the three search functions             *)
(* get_epmc_papers, get_domestic_news, get_overseas_news, the report       *)
(* generator generate_ai_report and the three button handlers of the       *)
(* Streamlit page.                                                         *)
(*                                                                         *)
(* Representation.                                                         *)
(*  - Time is counted in ticks, TicksPerDay ticks to a calendar day.       *)
(*  - A date string is a sequence of character codes, compared as Python   *)
(*    compares str (lexicographically by code point).  Day 1 is            *)
(*    1 September 2026; strftime("%Y-%m-%d") writes "2026-09-01".          *)
(*  - A keyword is a sequence of one-character strings, so that strip()    *)
(*    is computed.                                                         *)
(*  - The text of an XML child is a string, None (element present, no      *)
(*    text) or Missing (item.find returns None).                           *)
(***************************************************************************)
EXTENDS Integers, Sequences, FiniteSets, TLC

VARIABLES
    has_key,        \* configure_gemini() found GOOGLE_API_KEY on this run
    pc,             \* "idle", "loop", "items", "epmc", "returned", "done"
    caller,         \* "ui": a button handler; "direct": the function is called as such
    fn,             \* "paper", "domestic", "overseas", "report"
    keywords,       \* the keyword list the function was given
    months,
    ki,             \* position of the loop over keywords
    news_list,
    nread,          \* feed items read so far in this call
    requests,       \* urlopen calls issued in this call
    rate_limited,   \* a provider answered HTTP 429 in this call
    warnings,       \* st.warning messages shown in this run
    result,         \* the list the function returns
    raised,         \* the function ended with an exception instead
    list_ok,        \* genai.list_models() answered
    available,      \* available_models
    sorted_models,
    generated,      \* the models whose generate_content succeeds
    calls,          \* the models generate_content was called on, in order
    report          \* the text generate_ai_report returns

vars == <<has_key, pc, caller, fn, keywords, months, ki, news_list, nread,
          requests, rate_limited, warnings, result, raised, list_ok, available,
          sorted_models, generated, calls, report>>

-----------------------------------------------------------------------------
(* Bounds of the exploration *)
MaxKeywords == 2
MaxItems == 2
SliderMonths == 1
MaxModels == 2
TicksPerDay == 2

(* timedelta(days=months*30) *)
WindowDays == 30

None == "None"
Missing == "Missing"

-----------------------------------------------------------------------------
(* str values as sequences of code points *)

Digit(n) == 48 + (n % 10)

\* %d and %m: two digits
TwoDigits(n) == <<Digit(n \div 10), Digit(n)>>

\* %Y: the runs take place in the last four months of 2026, "2026"
YearDigits == <<50, 48, 50, 54>>

\* the calendar: day 1 is 1 September 2026, and September, October and
\* November have 30, 31 and 30 days
MonthOf(day) ==
    IF day <= 30 THEN 9 ELSE IF day <= 61 THEN 10 ELSE IF day <= 91 THEN 11 ELSE 12

DayOfMonth(day) ==
    IF day <= 30 THEN day
    ELSE IF day <= 61 THEN day - 30
    ELSE IF day <= 91 THEN day - 61
    ELSE day - 91

\* dt.strftime("%Y-%m-%d"), "2026-09-30"
Strftime(day) ==
    YearDigits \o <<45>> \o TwoDigits(MonthOf(day)) \o <<45>> \o TwoDigits(DayOfMonth(day))

\* a day written day-first ("29/09/2026"), which parsedate_to_datetime rejects
DayFirst(day) ==
    TwoDigits(DayOfMonth(day)) \o <<47>> \o TwoDigits(MonthOf(day)) \o <<47>> \o YearDigits

RECURSIVE StrLess(_, _)
\* Python's a < b on str
StrLess(a, b) ==
    IF b = <<>> THEN FALSE
    ELSE IF a = <<>> THEN TRUE
    ELSE IF Head(a) # Head(b) THEN Head(a) < Head(b)
    ELSE StrLess(Tail(a), Tail(b))

\* a record's 'date' value: a str or None
DateStr(s) == [isNone |-> FALSE, s |-> s]
DateNone == [isNone |-> TRUE, s |-> <<>>]

-----------------------------------------------------------------------------
(* The clock *)

\* datetime.now()
Now == (SliderMonths + 1) * WindowDays * TicksPerDay + 1

\* cutoff_date = datetime.now() - timedelta(days=months*30)
Cutoff(m) == Now - m * WindowDays * TicksPerDay

DayOf(t) == t \div TicksPerDay

-----------------------------------------------------------------------------
(* Keywords *)

RECURSIVE LStrip(_)
LStrip(k) == IF k # <<>> /\ Head(k) = " " THEN LStrip(Tail(k)) ELSE k

RECURSIVE RStrip(_)
RStrip(k) ==
    IF k # <<>> /\ k[Len(k)] = " " THEN RStrip(SubSeq(k, 1, Len(k) - 1)) ELSE k

\* a keyword taken as typed, surrounding spaces included
NoStrip(k) == k

\* k.strip()
Strip(k) == RStrip(LStrip(k))

\* [k.strip() for k in keywords if k.strip()]
RECURSIVE StripNonBlank(_)
StripNonBlank(ks) ==
    IF ks = <<>> THEN <<>>
    ELSE IF Strip(Head(ks)) # <<>>
         THEN <<Strip(Head(ks))>> \o StripNonBlank(Tail(ks))
         ELSE StripNonBlank(Tail(ks))

KeywordInputs == {<<" ">>, <<" ", "a">>}

SeqsUpTo(S, n) == UNION {[1..m -> S] : m \in 0..n}

KeywordLists == SeqsUpTo(KeywordInputs, MaxKeywords)

\* months = st.slider(...): the value the slider is set to
Months == {SliderMonths}

-----------------------------------------------------------------------------
(* RSS items as the feed delivers them *)

RfcDate(wall, tz) == [kind |-> "rfc", wall |-> wall, tz |-> tz, s |-> <<>>]
RawDate(s) == [kind |-> "raw", wall |-> 0, tz |-> 0, s |-> s]
NoDateText == [kind |-> "none", wall |-> 0, tz |-> 0, s |-> <<>>]
MissingDate == [kind |-> "missing", wall |-> 0, tz |-> 0, s |-> <<>>]

\* publication instants offered by the feeds: just before the cutoff, exactly
\* at it, and now
PubWalls == {Cutoff(SliderMonths) - 1, Cutoff(SliderMonths), Now}

\* the day before the cutoff's, written day-first
OldDayFirst == RawDate(DayFirst(DayOf(Cutoff(SliderMonths)) - 1))

\* a day of the first half of the month before the cutoff's day, written
\* day-first: as a str it is less than every "2026-.." date
EarlyDayFirst == RawDate(DayFirst(DayOf(Cutoff(SliderMonths)) \div 2))

PubDates == {RfcDate(w, 0) : w \in PubWalls}

Item(t, l, p, d) == [title |-> t, link |-> l, pubDate |-> p, description |-> d]

\* items with all four children and an RFC 2822 date
WellFormedItems ==
    {Item(tl[1], tl[2], p, "d") :
        tl \in {<<"A", "u1">>, <<"<b>B</b>", "u1">>, <<"A", "u2">>}, p \in PubDates}
        \cup {Item("A", "u2", RfcDate(Now, 1), None)}

\* items whose pubDate is not an RFC 2822 date
OddDateItems ==
    {Item("A", "u2", OldDayFirst, "d"),
     Item("A", "u2", EarlyDayFirst, "d"),
     Item("A", "u1", NoDateText, "d")}

\* items with a child element absent or a title without text
MalformedItems ==
    {Item(Missing, "u1", RfcDate(Now, 0), "d"),
     Item(None, "u1", RfcDate(Now, 0), "d"),
     Item(None, "u2", RfcDate(Cutoff(SliderMonths) - 1, 0), "d"),
     Item("A", "u1", MissingDate, "d"),
     Item("A", "u2", RfcDate(Now, 0), Missing)}

FeedItems == WellFormedItems \cup OddDateItems \cup MalformedItems

\* re.sub('<[^<]+>', '', text) on the texts the feeds carry
StripTags(text) == IF text = "<b>B</b>" THEN "B" ELSE text

NewsRecord(t, a, u, d) == [title |-> t, abstract |-> a, url |-> u, date |-> d]

Appended(rec) == [op |-> "append", rec |-> rec, err |-> ""]
Skipped == [op |-> "skip", rec |-> NewsRecord("", "", "", DateNone), err |-> ""]
Raised(e) == [op |-> "raise", rec |-> NewsRecord("", "", "", DateNone), err |-> e]

\* parsedate_to_datetime(pubDate) succeeds
Parses(p) == p.kind = "rfc"

\* the try/except around the date: None means `continue`
ItemDateOld(p, cutoff) == Parses(p) /\ p.wall < cutoff

ItemDateStr(p) ==
    IF Parses(p) THEN DateStr(Strftime(DayOf(p.wall)))
    ELSE IF p.kind = "raw" THEN DateStr(p.s)
    ELSE DateNone

\* body of `for item in root.findall('./channel/item')` in get_domestic_news
DomesticItem(item, cutoff) ==
    IF \/ item.title = Missing
       \/ item.link = Missing
       \/ item.pubDate.kind = "missing"
       \/ item.description = Missing
    THEN Raised("AttributeError")
    ELSE IF ItemDateOld(item.pubDate, cutoff) THEN Skipped
    ELSE IF item.title = None THEN Raised("TypeError")
    ELSE Appended(NewsRecord(StripTags(item.title),
                             IF item.description = None
                             THEN "placeholder"
                             ELSE StripTags(item.description),
                             item.link,
                             ItemDateStr(item.pubDate)))

\* body of `for item in root.findall('./channel/item')` in get_overseas_news
OverseasItem(item, cutoff) ==
    IF \/ item.title = Missing
       \/ item.link = Missing
       \/ item.pubDate.kind = "missing"
    THEN Raised("AttributeError")
    ELSE IF ItemDateOld(item.pubDate, cutoff) THEN Skipped
    ELSE Appended(NewsRecord(item.title, "see original", item.link,
                             ItemDateStr(item.pubDate)))

ProcessItem(f, item, cutoff) ==
    IF f = "domestic" THEN DomesticItem(item, cutoff) ELSE OverseasItem(item, cutoff)

-----------------------------------------------------------------------------
(* Deduplication and ordering *)

\* the value the dict holds for key u: the last record collected with that url
LastWithUrl(l, u) ==
    l[CHOOSE i \in 1..Len(l) :
        /\ l[i].url = u
        /\ \A j \in (i + 1)..Len(l) : l[j].url # u]

RECURSIVE UniqueFrom(_, _)
UniqueFrom(l, i) ==
    IF i > Len(l) THEN <<>>
    ELSE IF \A j \in 1..(i - 1) : l[j].url # l[i].url
         THEN <<LastWithUrl(l, l[i].url)>> \o UniqueFrom(l, i + 1)
         ELSE UniqueFrom(l, i + 1)

RECURSIVE FirstWinsFrom(_, _)
FirstWinsFrom(l, i) ==
    IF i > Len(l) THEN <<>>
    ELSE IF \A j \in 1..(i - 1) : l[j].url # l[i].url
         THEN <<l[i]>> \o FirstWinsFrom(l, i + 1)
         ELSE FirstWinsFrom(l, i + 1)

\* a mapping in which a url already seen keeps its first record
FirstWinsNews(l) == FirstWinsFrom(l, 1)

\* {n['url']: n for n in news_list}.values(): keys in first-insertion order
UniqueNews(l) == UniqueFrom(l, 1)

\* place of x in a list already sorted newest first: after every element
\* whose date is not less than x's
InsertDesc(acc, x) ==
    LET n == Cardinality({i \in 1..Len(acc) : ~StrLess(acc[i].date.s, x.date.s)})
    IN SubSeq(acc, 1, n) \o <<x>> \o SubSeq(acc, n + 1, Len(acc))

RECURSIVE SortFrom(_, _, _)
SortFrom(l, i, acc) ==
    IF i > Len(l) THEN acc ELSE SortFrom(l, i + 1, InsertDesc(acc, l[i]))

\* sorted(unique_news, key=lambda x: x['date'], reverse=True)
SortedByDate(l) == SortFrom(l, 1, <<>>)

\* comparing None with anything raises TypeError; one element is never compared
SortRaises(l) == Len(l) >= 2 /\ \E i \in 1..Len(l) : l[i].date.isNone

-----------------------------------------------------------------------------
(* Europe PMC *)

Paper(t, a, doi, d) == [title |-> t, abstractText |-> a, doi |-> doi, date |-> d]

EpmcPapers ==
    {Paper("T", "x", "10.1", DateStr(Strftime(DayOf(Now)))),
     Paper("T", "<b>B</b>", None, DateStr(<<>>)),
     Paper("", "x", "10.1", DateStr(<<>>)),
     Paper("T", "", "10.1", DateStr(<<>>)),
     Paper("T", None, "10.1", DateStr(<<>>))}

\* link = f"https://doi.org/{doi}" if doi else ""
DoiLink(doi) == IF doi = None THEN "" ELSE "https://doi.org/10.1"

RECURSIVE EpmcFiltered(_)
\* the loop over data['resultList']['result'], when nothing in it raises
EpmcFiltered(ps) ==
    IF ps = <<>> THEN <<>>
    ELSE LET p == Head(ps)
         IN (IF p.title # "" /\ p.abstractText # ""
             THEN <<NewsRecord(p.title, StripTags(p.abstractText), DoiLink(p.doi), p.date)>>
             ELSE <<>>) \o EpmcFiltered(Tail(ps))

\* the try block of get_epmc_papers: re.sub on a null abstractText raises
\* TypeError and the bare except returns []
EpmcResult(ps) ==
    IF \E i \in 1..Len(ps) : ps[i].abstractText = None THEN <<>> ELSE EpmcFiltered(ps)

-----------------------------------------------------------------------------
(* generate_ai_report *)

PreferredOrder == <<"models/gemini-1.5-pro", "models/gemini-1.5-flash", "models/gemini-pro">>

\* a model outside the preference list, and one without generateContent
OtherModel == "models/gemini-2.0-flash"
EmbeddingModel == "models/embedding-001"

ModelNames ==
    {PreferredOrder[i] : i \in 1..Len(PreferredOrder)} \cup {OtherModel, EmbeddingModel}

Range(q) == {q[i] : i \in 1..Len(q)}

InSeq(x, q) == \E i \in 1..Len(q) : q[i] = x

RECURSIVE Filter(_, _)
\* [m for m in q if keep[m]]
Filter(q, keep) ==
    IF q = <<>> THEN <<>>
    ELSE (IF keep[Head(q)] THEN <<Head(q)>> ELSE <<>>) \o Filter(Tail(q), keep)

\* [m.name for m in genai.list_models() if 'generateContent' in m.supported_generation_methods]
AvailableModels(listing) ==
    LET names == [i \in 1..Len(listing) |-> listing[i].name]
        gen == [n \in ModelNames |->
                  \E i \in 1..Len(listing) : listing[i].name = n /\ listing[i].generates]
    IN Filter(names, gen)

\* the candidates in the order of the listing, preference ignored
ListingOrder(avail) == avail

\* preferred models that are available, then the available ones not preferred
SortedModels(avail) ==
    Filter(PreferredOrder, [n \in ModelNames |-> InSeq(n, avail)])
        \o Filter(avail, [n \in ModelNames |-> ~InSeq(n, PreferredOrder)])

RECURSIVE TryModels(_, _)
\* the for loop over sorted_models: the calls made, in order
TryModels(q, ok) ==
    IF q = <<>> THEN <<>>
    ELSE IF Head(q) \in ok THEN <<Head(q)>>
    ELSE <<Head(q)>> \o TryModels(Tail(q), ok)

ReportNoData == <<"no data">>
ReportSetupError == <<"model setup error">>
ReportFailed == <<"AI analysis failed">>
ResponseText(m) == <<"text", m>>
NoReport == <<>>

\* generate_ai_report(items, keywords, section_type), given what list_models
\* answers (listOk, listing) and the models whose generate_content succeeds (ok)
GenerateAiReport(items, listOk, listing, ok) ==
    IF items = <<>>
    THEN [report |-> ReportNoData, available |-> <<>>, sorted_models |-> <<>>, calls |-> <<>>]
    ELSE IF ~listOk
    THEN [report |-> ReportSetupError, available |-> <<>>, sorted_models |-> <<>>,
          calls |-> <<>>]
    ELSE LET avail == AvailableModels(listing)
             sm == SortedModels(avail)
             cs == TryModels(sm, ok)
         IN [report |-> IF cs # <<>> /\ cs[Len(cs)] \in ok
                        THEN ResponseText(cs[Len(cs)])
                        ELSE ReportFailed,
             available |-> avail, sorted_models |-> sm, calls |-> cs]

ListedModel(n) == [name |-> n, generates |-> n # EmbeddingModel]

\* what genai.list_models() may answer: each model once, in any order
Listings ==
    {q \in SeqsUpTo({ListedModel(n) : n \in ModelNames}, MaxModels) :
        \A i, j \in 1..Len(q) : q[i].name = q[j].name => i = j}

-----------------------------------------------------------------------------
(* The page and the calls *)

\* what urlopen / ET.fromstring can raise for one request
FetchErrors == {"URLError", "HTTP Error 429", "ParseError"}

UiWarning(e) == [k |-> <<>>, e |-> e]
FetchWarning(k, e) == [k |-> k, e |-> e]

\* configure_gemini() returned False: st.error is shown (lines 208-209)
ConfigErrorShown == ~has_key

Init ==
    /\ has_key = FALSE
    /\ pc = "idle"
    /\ caller = "ui"
    /\ fn = "paper"
    /\ keywords = <<>>
    /\ months = SliderMonths
    /\ ki = 1
    /\ news_list = <<>>
    /\ nread = 0
    /\ requests = 0
    /\ rate_limited = FALSE
    /\ warnings = <<>>
    /\ result = <<>>
    /\ raised = FALSE
    /\ list_ok = FALSE
    /\ available = <<>>
    /\ sorted_models = <<>>
    /\ generated = {}
    /\ calls = <<>>
    /\ report = NoReport

\* no handler and no function is running
AtRest == pc = "idle"

\* entry of a function: its locals are fresh
Enter(c, f, ks, m, shown) ==
    /\ caller' = c
    /\ fn' = f
    /\ keywords' = ks
    /\ months' = m
    /\ ki' = 1
    /\ news_list' = <<>>
    /\ nread' = 0
    /\ requests' = 0
    /\ rate_limited' = FALSE
    /\ warnings' = shown
    /\ result' = <<>>
    /\ raised' = FALSE
    /\ list_ok' = FALSE
    /\ available' = <<>>
    /\ sorted_models' = <<>>
    /\ generated' = {}
    /\ calls' = <<>>
    /\ report' = NoReport

\* get_epmc_papers up to the request, get_*_news up to the loop
EnterSearch(c, f, ks, m) ==
    /\ Enter(c, f, ks, m, <<>>)
    /\ pc' = IF f = "paper"
             THEN (IF StripNonBlank(ks) = <<>> THEN "returned" ELSE "epmc")
             ELSE "loop"

\* a search button is pressed: the handler splits the text area
StartHandler(f, lines, m, key) ==
    /\ has_key' = key
    /\ LET k == StripNonBlank(lines)
       IN IF k = <<>>
          THEN /\ Enter("ui", f, k, m, <<UiWarning("enter keywords")>>)
               /\ pc' = "done"
          ELSE EnterSearch("ui", f, k, m)

SearchFunctions == {"paper", "domestic", "overseas"}

Click ==
    /\ AtRest
    /\ \E f \in SearchFunctions, lines \in KeywordLists, m \in Months, key \in BOOLEAN :
          StartHandler(f, lines, m, key)

\* a search function is called with an arbitrary keyword list
Call ==
    /\ AtRest
    /\ \E f \in SearchFunctions, ks \in KeywordLists, m \in Months :
          EnterSearch("direct", f, ks, m)
    /\ UNCHANGED has_key

InLoop == pc = "loop" /\ ki <= Len(keywords)

\* `if not clean_k: continue`
SkipBlank ==
    /\ InLoop
    /\ Strip(keywords[ki]) = <<>>
    /\ ki' = ki + 1
    /\ UNCHANGED <<has_key, pc, caller, fn, keywords, months, news_list, nread,
                   requests, warnings, result, raised, list_ok, available,
                   sorted_models, generated, calls, report, rate_limited>>

\* st.warning in the except branch of get_domestic_news; get_overseas_news
\* has a bare `continue`
AfterException(f, w, k, e) ==
    IF f = "domestic" THEN Append(w, FetchWarning(k, e)) ELSE w

\* the request or the XML parse of one keyword raises
FetchFail ==
    /\ InLoop
    /\ Strip(keywords[ki]) # <<>>
    /\ requests' = requests + 1
    /\ \E e \in FetchErrors :
          /\ warnings' = AfterException(fn, warnings, Strip(keywords[ki]), e)
          /\ rate_limited' = (rate_limited \/ e = "HTTP Error 429")
    /\ ki' = ki + 1
    /\ UNCHANGED <<has_key, pc, caller, fn, keywords, months, news_list, nread,
                   result, raised, list_ok, available, sorted_models,
                   generated, calls, report>>

\* the request of one keyword answers with a feed
FetchOk ==
    /\ InLoop
    /\ Strip(keywords[ki]) # <<>>
    /\ requests' = requests + 1
    /\ pc' = "items"
    /\ UNCHANGED <<has_key, caller, fn, keywords, months, ki, news_list, nread,
                   warnings, result, raised, list_ok, available, sorted_models,
                   generated, calls, report, rate_limited>>

\* one iteration of the loop over the items of the feed
NextItem ==
    /\ pc = "items"
    /\ nread < MaxItems
    /\ nread' = nread + 1
    /\ \E item \in FeedItems :
       LET r == ProcessItem(fn, item, Cutoff(months))
       IN /\ news_list' = IF r.op = "append" THEN Append(news_list, r.rec) ELSE news_list
          /\ IF r.op = "raise"
             THEN /\ warnings' = AfterException(fn, warnings, Strip(keywords[ki]), r.err)
                  /\ ki' = ki + 1
                  /\ pc' = "loop"
             ELSE UNCHANGED <<warnings, ki, pc>>
    /\ UNCHANGED <<has_key, caller, fn, keywords, months, requests, result,
                   raised, list_ok, available, sorted_models, generated, calls,
                   report, rate_limited>>

\* the feed has no more items
EndFeed ==
    /\ pc = "items"
    /\ ki' = ki + 1
    /\ pc' = "loop"
    /\ UNCHANGED <<has_key, caller, fn, keywords, months, news_list, nread,
                   requests, warnings, result, raised, list_ok, available,
                   sorted_models, generated, calls, report, rate_limited>>

\* after the loop: deduplicate, sort, return
ReturnNews ==
    /\ pc = "loop"
    /\ ki > Len(keywords)
    /\ LET unique_news == UniqueNews(news_list)
       IN IF SortRaises(unique_news)
          THEN raised' = TRUE /\ result' = <<>>
          ELSE raised' = FALSE /\ result' = SortedByDate(unique_news)
    /\ pc' = "returned"
    /\ nread' = 0
    /\ UNCHANGED <<has_key, caller, fn, keywords, months, ki, news_list,
                   requests, warnings, list_ok, available, sorted_models,
                   generated, calls, report, rate_limited>>

\* the try block of get_epmc_papers: one request for all keywords
EpmcFail ==
    /\ pc = "epmc"
    /\ requests' = requests + 1
    /\ \E e \in FetchErrors : rate_limited' = (e = "HTTP Error 429")
    /\ result' = <<>>
    /\ pc' = "returned"
    /\ UNCHANGED <<has_key, caller, fn, keywords, months, ki, news_list, nread,
                   warnings, raised, list_ok, available, sorted_models,
                   generated, calls, report>>

EpmcOk ==
    /\ pc = "epmc"
    /\ requests' = requests + 1
    /\ \E ps \in SeqsUpTo(EpmcPapers, MaxItems) : result' = EpmcResult(ps)
    /\ pc' = "returned"
    /\ UNCHANGED <<has_key, caller, fn, keywords, months, ki, news_list, nread,
                   warnings, raised, list_ok, available, sorted_models,
                   generated, calls, report, rate_limited>>

\* the handler after the search function: an exception ends the run
UiRaised ==
    /\ pc = "returned" /\ caller = "ui" /\ raised
    /\ pc' = "done"
    /\ news_list' = <<>> /\ ki' = 1
    /\ UNCHANGED <<has_key, caller, fn, keywords, months, nread, requests,
                   warnings, result, raised, list_ok, available, sorted_models,
                   generated, calls, report, rate_limited>>

\* `if not papers: st.warning(...)`
UiNoResults ==
    /\ pc = "returned" /\ caller = "ui" /\ ~raised
    /\ result = <<>>
    /\ warnings' = Append(warnings, UiWarning("no results"))
    /\ pc' = "done"
    /\ news_list' = <<>> /\ ki' = 1
    /\ UNCHANGED <<has_key, caller, fn, keywords, months, nread, requests,
                   result, raised, list_ok, available, sorted_models,
                   generated, calls, report, rate_limited>>

Service(listOk, listing, ok) == [listOk |-> listOk, listing |-> listing, ok |-> ok]

\* states of the summarization service met by the page
UiServices ==
    {Service(FALSE, <<>>, {}),
     Service(TRUE, <<>>, {}),
     Service(TRUE, <<ListedModel(OtherModel)>>, {OtherModel}),
     Service(TRUE, <<ListedModel(OtherModel)>>, {})}

\* the else branch: generate_ai_report on the results, then rendering
UiReport ==
    /\ pc = "returned" /\ caller = "ui" /\ ~raised
    /\ result # <<>>
    /\ \E svc \in UiServices :
       LET g == GenerateAiReport(result, svc.listOk, svc.listing, svc.ok)
       IN report' = g.report /\ calls' = g.calls
    /\ pc' = "done"
    /\ news_list' = <<>> /\ ki' = 1
    /\ UNCHANGED <<has_key, caller, fn, keywords, months, nread, requests,
                   warnings, result, raised, list_ok, available, sorted_models,
                   generated, rate_limited>>

ReportItems ==
    {<<>>,
     <<NewsRecord("A", "d", "u1", DateStr(Strftime(DayOf(Now))))>>,
     <<NewsRecord("A", "d", "u1", DateStr(Strftime(DayOf(Now)))),
       NewsRecord("B", "d", "u2", DateNone)>>}

\* generate_ai_report called on a list of items
CallReport ==
    /\ AtRest
    /\ \E items \in ReportItems, listOk \in BOOLEAN, listing \in Listings :
       \E ok \in SUBSET Range(AvailableModels(listing)) :
       LET g == GenerateAiReport(items, listOk, listing, ok)
       IN /\ result' = items
          /\ report' = g.report
          /\ calls' = g.calls
          /\ list_ok' = (items # <<>> /\ listOk)
          /\ available' = g.available
          /\ sorted_models' = g.sorted_models
          /\ generated' = ok
    /\ caller' = "direct"
    /\ fn' = "report"
    /\ pc' = "returned"
    /\ UNCHANGED <<has_key, keywords, months, ki, news_list, nread, requests,
                   warnings, raised, rate_limited>>

\* the run is over: the next one starts from scratch
Finished == pc = "done" \/ (pc = "returned" /\ caller = "direct")

Reset ==
    /\ Finished
    /\ Enter("ui", "paper", <<>>, SliderMonths, <<>>)
    /\ has_key' = FALSE
    /\ pc' = "idle"

Next ==
    \/ Click
    \/ Call
    \/ SkipBlank
    \/ FetchFail
    \/ FetchOk
    \/ NextItem
    \/ EndFeed
    \/ ReturnNews
    \/ EpmcFail
    \/ EpmcOk
    \/ UiRaised
    \/ UiNoResults
    \/ UiReport
    \/ CallReport
    \/ Reset

Spec == Init /\ [][Next]_vars

-----------------------------------------------------------------------------
(* Vocabulary of the properties *)

NewsFunctions == {"domestic", "overseas"}

\* a news function has returned its list
NewsReturned == pc = "returned" /\ fn \in NewsFunctions /\ ~raised

\* a news function has ended, with a list or with an exception
NewsEnded == pc = "returned" /\ fn \in NewsFunctions

IsDigit(c) == c >= 48 /\ c <= 57

\* the string has the form strftime produces, yyyy-mm-dd
IsYmd(s) ==
    /\ Len(s) = 10
    /\ s[5] = 45 /\ s[8] = 45
    /\ \A i \in {1, 2, 3, 4, 6, 7, 9, 10} : IsDigit(s[i])

\* dd/mm/yyyy
IsDayFirstForm(s) ==
    /\ Len(s) = 10
    /\ s[3] = 47 /\ s[6] = 47
    /\ \A i \in {1, 2, 4, 5, 7, 8, 9, 10} : IsDigit(s[i])

Number(a, b) == (a - 48) * 10 + (b - 48)

\* days of 2026 before the first of the month, counted from 1 September
DaysBefore(month) ==
    CASE month = 9 -> 0
      [] month = 10 -> 30
      [] month = 11 -> 61
      [] OTHER -> 91

\* the calendar day a date value denotes, -1 when it denotes none
CalendarDay(d) ==
    IF d.isNone THEN -1
    ELSE IF IsYmd(d.s)
    THEN DaysBefore(Number(d.s[6], d.s[7])) + Number(d.s[9], d.s[10])
    ELSE IF IsDayFirstForm(d.s)
    THEN DaysBefore(Number(d.s[4], d.s[5])) + Number(d.s[1], d.s[2])
    ELSE -1

\* every character of the keyword is a space
Blank(k) == \A i \in 1..Len(k) : k[i] = " "

AllBlank(ks) == \A i \in 1..Len(ks) : Blank(ks[i])

\* position in news_list of the last item collected with this url
LastCollected(u) ==
    CHOOSE i \in 1..Len(news_list) :
        /\ news_list[i].url = u
        /\ \A j \in 1..Len(news_list) : news_list[j].url = u => j <= i

-----------------------------------------------------------------------------
(* C1: every dated record a news function returns has a publication date    *)
(* that is not earlier than the cutoff now - months*30 days.                 *)
C1_WithinWindow ==
    NewsReturned =>
        \A i \in 1..Len(result) :
            ~result[i].date.isNone =>
                CalendarDay(result[i].date) >= DayOf(Cutoff(months))

(* C2: an item whose pubDate does not parse never appears in the returned    *)
(* list: every returned record carries a date produced from a parsed         *)
(* pubDate.                                                                  *)
C2_UnparseableDropped ==
    NewsReturned =>
        \A i \in 1..Len(result) :
            ~result[i].date.isNone /\ IsYmd(result[i].date.s)

(* C3: the returned list holds no url twice, and for every url among the     *)
(* collected items exactly one record, the one collected last.               *)
C3_LastWinsDedup ==
    NewsReturned =>
        /\ \A i, j \in 1..Len(result) : result[i].url = result[j].url => i = j
        /\ \A k \in 1..Len(news_list) :
              \E i \in 1..Len(result) :
                  /\ result[i].url = news_list[k].url
                  /\ result[i] = news_list[LastCollected(news_list[k].url)]
        /\ \A i \in 1..Len(result) :
              \E k \in 1..Len(news_list) : news_list[k] = result[i]

\* two items with the same url and different titles were collected, and the
\* returned record for that url is the later one
C3_Witness ==
    /\ NewsReturned
    /\ \E j, k \in 1..Len(news_list) :
          /\ j < k
          /\ news_list[j].url = news_list[k].url
          /\ news_list[j].title # news_list[k].title
          /\ LastCollected(news_list[k].url) = k
          /\ \E i \in 1..Len(result) : result[i] = news_list[k]

(* C4: the returned list is ordered newest calendar date first, and records  *)
(* of equal date keep the order in which they were collected.                *)
C4_NewestFirstStable ==
    NewsReturned =>
        \A i, j \in 1..Len(result) :
            i < j =>
                /\ CalendarDay(result[i].date) >= CalendarDay(result[j].date)
                /\ CalendarDay(result[i].date) = CalendarDay(result[j].date)
                      => LastCollected(result[i].url) < LastCollected(result[j].url)

(* C5: no exception escapes a search function, whatever the providers        *)
(* answer, and every non-blank keyword is fetched, failed fetches of other   *)
(* keywords notwithstanding.                                                 *)
C5_NoExceptionEscapes ==
    (pc = "returned" /\ fn \in SearchFunctions) =>
        /\ ~raised
        /\ fn \in NewsFunctions =>
              requests = Cardinality({i \in 1..Len(keywords) : ~Blank(keywords[i])})

(* C6: when every supplied keyword is empty or blank no request is issued    *)
(* and the result is empty; a handler whose text area holds no keyword does  *)
(* not call the search function.                                             *)
C6_BlankKeywordsNoRequest ==
    /\ (fn \in SearchFunctions /\ AllBlank(keywords)) =>
          /\ requests = 0
          /\ news_list = <<>>
          /\ result = <<>>
          /\ ~raised
          /\ pc \in {"idle", "loop", "returned", "done"}
    /\ (caller = "ui" /\ pc # "idle" /\ keywords = <<>>) =>
          /\ pc = "done"
          /\ warnings = <<UiWarning("enter keywords")>>

\* a search function called with two blank keywords has returned
C6_Witness ==
    /\ pc = "returned"
    /\ caller = "direct"
    /\ fn = "domestic"
    /\ Len(keywords) = 2
    /\ AllBlank(keywords)
    /\ keywords[1] # <<>>
    /\ requests = 0
    /\ result = <<>>

(* C7: when a provider answers HTTP 429 the search function still returns,   *)
(* and a warning naming the failure is shown, for each of the three search   *)
(* functions.                                                                *)
C7_RateLimitWarned ==
    (pc = "returned" /\ fn \in SearchFunctions /\ rate_limited) =>
        /\ ~raised
        /\ \E i \in 1..Len(warnings) : warnings[i].e = "HTTP Error 429"

(* C8: when GOOGLE_API_KEY is missing no search button triggers a provider   *)
(* fetch or a summarization call.                                            *)
C8_NoKeyNoSearch ==
    (caller = "ui" /\ pc # "idle" /\ ~has_key) => (requests = 0 /\ calls = <<>>)

(* C9: an item that cannot be processed is skipped alone: after any item has *)
(* been read the loop is still on the same feed, so the items after it are   *)
(* read too.                                                                 *)
C9_OnlyOffendingItemSkipped ==
    [][(pc = "items" /\ nread' = nread + 1) => (pc' = "items" /\ ki' = ki)]_vars

-----------------------------------------------------------------------------
(* C10 *)

\* rank in the preference order; the models not named in it come last
PreferenceRank(m) ==
    CASE m = "models/gemini-1.5-pro" -> 1
      [] m = "models/gemini-1.5-flash" -> 2
      [] m = "models/gemini-pro" -> 3
      [] OTHER -> 4

PositionIn(q, m) == CHOOSE i \in 1..Len(q) : q[i] = m

\* candidate a is tried before candidate b
TriedBefore(a, b) ==
    \/ PreferenceRank(a) < PreferenceRank(b)
    \/ /\ PreferenceRank(a) = 4
       /\ PreferenceRank(b) = 4
       /\ PositionIn(available, a) < PositionIn(available, b)

ReportReturned == pc = "returned" /\ fn = "report" /\ result # <<>>

(* C10: generate_ai_report on a non-empty list calls the available models    *)
(* one at a time in preference order, stops at the first that succeeds and   *)
(* returns its text, goes on after a failure, and returns a failure text     *)
(* when all fail or when the listing fails.                                  *)
C10_ModelFallback ==
    ReportReturned =>
        /\ ~list_ok => (calls = <<>> /\ report = ReportSetupError)
        /\ list_ok =>
              /\ \A i \in 1..Len(calls) : InSeq(calls[i], available)
              /\ \A i, j \in 1..Len(calls) : i < j => TriedBefore(calls[i], calls[j])
              /\ \A i \in 1..(Len(calls) - 1) : calls[i] \notin generated
              /\ \A m \in Range(available) :
                    ~InSeq(m, calls) =>
                        /\ calls # <<>>
                        /\ calls[Len(calls)] \in generated
                        /\ TriedBefore(calls[Len(calls)], m)
              /\ IF calls # <<>> /\ calls[Len(calls)] \in generated
                 THEN report = ResponseText(calls[Len(calls)])
                 ELSE report = ReportFailed

\* the listing names a model outside the preference list before a preferred
\* one; the preferred one is tried first and fails, the other one succeeds
C10_Witness ==
    /\ ReportReturned
    /\ list_ok
    /\ Len(available) = 2
    /\ PreferenceRank(available[1]) = 4
    /\ calls = <<available[2], available[1]>>
    /\ report = ResponseText(available[1])

====
